---- MODULE Spec2Model ----
(***************************************************************************)
(* DBTMixin (ingestion/source/database/dbt_source.py): the dbt artifacts   *)
(* (manifest, catalog, run results) are merged, resolved into DataModels,  *)
(* and turned into lineage, test suite / definition / case requests and    *)
(* test results.                                                           *)
(*                                                                         *)
(* Python dictionaries are ordered: a dict is a sequence of [k, v] pairs   *)
(* with unique keys.  A key that is absent from a dict is the value        *)
(* Missing, a JSON null is the value None.                                 *)
(***************************************************************************)
EXTENDS Integers, Sequences, FiniteSets, TLC

VARIABLES
    dbtConfigSource,   \* self.source_config.dbtConfigSource (truthy or not)
    dbt_manifest,      \* self.dbt_manifest: [present, nodes, sources]
    dbt_catalog,       \* self.dbt_catalog:  [present, nodes, sources]
    dbt_run_results,   \* self.dbt_run_results: [present, results]
    manifest_entities, \* self.manifest_entities (dict)
    catalog_entities,  \* self.catalog_entities (dict)
    data_models,       \* self.data_models (dict fqn -> DataModel)
    dbt_tests,         \* self.dbt_tests (dict node id -> manifest node)
    store,             \* the metadata catalog behind self.metadata
    pending,           \* requests yielded to the caller, not yet visible in the store
    lineage,           \* AddLineageRequests yielded so far
    suites,            \* CreateTestSuiteRequests yielded so far
    definitions,       \* CreateTestDefinitionRequests yielded so far
    cases,             \* CreateTestCaseRequests yielded so far
    results,           \* add_test_case_results calls that went through
    log,               \* the warnings and errors logged by the except branches
    built,             \* history: the node id each stored DataModel was built from
    pc,                \* which method of the mixin the caller is driving
    idx                \* position of the running generator in its loop

vars == <<dbtConfigSource, dbt_manifest, dbt_catalog, dbt_run_results,
          manifest_entities, catalog_entities, data_models, dbt_tests, store,
          pending, lineage, suites, definitions, cases, results, log, built,
          pc, idx>>

\* ------------------------------------------------------------------ bounds
MaxDeps == 2      \* longest depends_on.nodes list drawn
MaxResults == 2   \* most run-result records drawn

\* ------------------------------------------------------------ Python values
None == "<None>"
Missing == "<missing>"

\* Python truthiness of a string-or-null value
Truthy(x) == x \notin {None, Missing, ""}

\* dict helpers
Keys(d) == {d[i].k : i \in DOMAIN d}
Has(d, k) == k \in Keys(d)
Get(d, k) == d[CHOOSE i \in DOMAIN d : d[i].k = k].v
Put(d, k, v) ==
    IF Has(d, k)
    THEN [i \in DOMAIN d |-> IF d[i].k = k THEN [k |-> k, v |-> v] ELSE d[i]]
    ELSE Append(d, [k |-> k, v |-> v])

\* {**a, **b}
RECURSIVE DictMerge(_, _)
DictMerge(a, b) ==
    IF b = <<>> THEN a
    ELSE DictMerge(Put(a, Head(b).k, Head(b).v), Tail(b))

\* str.lower() on the column keys that occur
Lower(s) ==
    CASE s = "ID" -> "id"
      [] s = "Name" -> "name"
      [] OTHER -> s

ServiceName == "svc"   \* self.config.serviceName

\* ------------------------------------------------- external collaborators
\* fqn.build for Table, DataModel and TestCase: the scoping keys joined by
\* dots, in order (a null key is rendered as it is passed)
FqnTable(service_name, database_name, schema_name, table_name) ==
    service_name \o "." \o database_name \o "." \o schema_name \o "." \o table_name

FqnDataModel(service_name, database_name, schema_name, model_name) ==
    service_name \o "." \o database_name \o "." \o schema_name \o "." \o model_name

FqnTestCase(service_name, database_name, schema_name, table_name, column_name, test_case_name) ==
    service_name \o "." \o database_name \o "." \o schema_name \o "." \o table_name
        \o "." \o column_name \o "." \o test_case_name

\* fqn.build for User and Team: the name when the catalog knows it, else None
FqnUser(st, user_name) == IF user_name \in st.users THEN user_name ELSE None
FqnTeam(st, team_name) == IF team_name \in st.teams THEN team_name ELSE None

\* metadata.get_entity_reference
GetEntityReference(kind, name) == [type |-> kind, name |-> name]
NoOwner == [type |-> "none", name |-> None]

\* metadata.get_by_name(entity=kind, fqn=name): raises, returns None, or
\* returns the entity (whose id is its catalog identity)
EntityId(kind, name) == "id:" \o kind \o ":" \o name
LookupRaises(st, kind, name) == <<kind, name>> \in st.raising
LookupFinds(st, kind, name) ==
    CASE kind = "Table" -> name \in st.tables
      [] kind = "TestSuite" -> name \in st.suites
      [] kind = "TestDefinition" -> name \in st.defs
      [] OTHER -> FALSE

\* ColumnTypeParser.get_column_type
ColumnType(ctype) ==
    CASE ctype = "integer" -> "INT"
      [] ctype = "character varying(16)" -> "VARCHAR"
      [] ctype = "text" -> "TEXT"
      [] OTHER -> "UNKNOWN"

\* ----------------------------------------------------------- log entries
Warn(site, key) == [site |-> site, key |-> key]

\* ------------------------------------------------------ _parse_data_model
\* name = mnode["alias"] if "alias" in mnode.keys() else mnode["name"]
HasNodeName(mnode) == mnode.alias # Missing \/ mnode.name # Missing
NodeName(mnode) == IF mnode.alias # Missing THEN mnode.alias ELSE mnode.name

\* x if x else "default"
OrDefault(x) == IF Truthy(x) THEN x ELSE "default"

\* the description of one column (_parse_data_model_columns, lines 187-192)
ColumnDescription(manifest_columns, key, ccolumn) ==
    LET fromManifest ==
            IF Has(manifest_columns, Lower(key))
               /\ Get(manifest_columns, Lower(key)).description # Missing
            THEN Get(manifest_columns, Lower(key)).description
            ELSE None
        description ==
            IF fromManifest = None
            THEN (IF ccolumn.comment = Missing THEN None ELSE ccolumn.comment)
            ELSE fromManifest
    IN IF Truthy(description) THEN description ELSE None

\* the per-column try block raises: the catalog column has no type
ColumnRaises(ccolumn) == ccolumn.type = Missing

MakeColumn(manifest_columns, key, ccolumn) ==
    [name |-> Lower(ccolumn.name),
     description |-> ColumnDescription(manifest_columns, key, ccolumn),
     dataType |-> ColumnType(ccolumn.type),
     dataLength |-> 1,
     ordinalPosition |-> ccolumn.index]

\* _parse_data_model_columns: [ok, val, warns]; ok is FALSE when the call
\* raises (ccolumn["name"] is read outside the try block)
RECURSIVE ParseDataModelColumnsLoop(_, _, _, _)
ParseDataModelColumnsLoop(nodeKey, ccolumns, manifest_columns, acc) ==
    IF ccolumns = <<>> THEN acc
    ELSE LET key == Head(ccolumns).k
             ccolumn == Head(ccolumns).v
         IN IF ccolumn.name = Missing
            THEN [acc EXCEPT !.ok = FALSE]
            ELSE ParseDataModelColumnsLoop(nodeKey, Tail(ccolumns), manifest_columns,
                    IF ColumnRaises(ccolumn)
                    THEN [acc EXCEPT !.warns = @ \cup {Warn("column", nodeKey \o "/" \o key)}]
                    ELSE [acc EXCEPT !.val =
                            Append(@, MakeColumn(manifest_columns, key, ccolumn))])

ParseDataModelColumns(nodeKey, mnode, cnode) ==
    ParseDataModelColumnsLoop(nodeKey, cnode.columns, mnode.columns,
                              [ok |-> TRUE, val |-> <<>>, warns |-> {}])

\* one dependency of _parse_data_model_upstream: does the try block raise
UpstreamRaises(me, node) ==
    \/ ~Has(me, node)
    \/ Get(me, node).name = Missing

\* the parent's qualified table name (lines 153-164)
ParentFqn(parent_node) ==
    FqnTable(ServiceName, OrDefault(parent_node.database),
             OrDefault(parent_node.schema), parent_node.name)

\* _parse_data_model_upstream: [val, warns]
RECURSIVE ParseDataModelUpstreamLoop(_, _, _)
ParseDataModelUpstreamLoop(me, nodes, acc) ==
    IF nodes = <<>> THEN acc
    ELSE LET node == Head(nodes)
         IN ParseDataModelUpstreamLoop(me, Tail(nodes),
                IF UpstreamRaises(me, node)
                THEN [acc EXCEPT !.warns = @ \cup {Warn("upstream", node)}]
                ELSE [acc EXCEPT !.val = Append(@, ParentFqn(Get(me, node)))])

ParseDataModelUpstream(me, mnode) ==
    ParseDataModelUpstreamLoop(me,
        IF mnode.depends_on.present THEN mnode.depends_on.nodes ELSE <<>>,
        [val |-> <<>>, warns |-> {}])

\* owner resolution (lines 100-122): user first, team as fallback
ResolveOwner(st, dbt_owner) ==
    IF ~Truthy(dbt_owner) THEN NoOwner
    ELSE LET owner_name == "*" \o dbt_owner \o "*"
         IN IF FqnUser(st, owner_name) # None
            THEN GetEntityReference("user", FqnUser(st, owner_name))
            ELSE IF FqnTeam(st, owner_name) # None
                 THEN GetEntityReference("team", FqnTeam(st, owner_name))
                 ELSE NoOwner

OwnerNotFound(st, dbt_owner) ==
    Truthy(dbt_owner) /\ ResolveOwner(st, dbt_owner) = NoOwner

\* a variant of ModelFqn that ignores the alias
ModelFqn_NameOnly(mnode) ==
    FqnDataModel(ServiceName, OrDefault(mnode.database), OrDefault(mnode.schema),
                 mnode.name)

\* the key of the DataModel map (lines 93-97, 134-141)
ModelFqn(mnode) ==
    FqnDataModel(ServiceName, OrDefault(mnode.database), OrDefault(mnode.schema),
                 NodeName(mnode))

\* the DataModel of a non-test node (lines 124-133)
MakeDataModel(st, me, mnode, cnode, columns) ==
    [modelType |-> "DBT",
     description |-> IF Truthy(mnode.description) THEN mnode.description ELSE None,
     path |-> mnode.root_path \o "/" \o mnode.original_file_path,
     rawSql |-> IF mnode.raw_sql = Missing THEN "" ELSE mnode.raw_sql,
     sql |-> IF mnode.compiled_sql # Missing THEN mnode.compiled_sql
             ELSE IF mnode.raw_sql = Missing THEN "" ELSE mnode.raw_sql,
     columns |-> columns,
     upstream |-> ParseDataModelUpstream(me, mnode).val,
     owner |-> ResolveOwner(st, cnode.metadata.owner)]

\* does the loop body of _parse_data_model raise for this node (lines 81-142)
ParseRaises(ce, key, mnode) ==
    \/ ~HasNodeName(mnode)
    \/ Has(ce, key) /\ ~ParseDataModelColumns(key, mnode, Get(ce, key)).ok
    \/ /\ mnode.resource_type # "test"
       /\ \/ mnode.database = Missing
          \/ mnode.schema = Missing
          \/ ~Has(ce, key)              \* cnode["metadata"] with cnode None
          \/ mnode.root_path = Missing
          \/ mnode.original_file_path = Missing

\* what the loop body logs before it stores or raises: the warnings of the
\* column and upstream helpers and the owner warning of line 120
ParseWarns(st, me, ce, key, mnode) ==
    LET colsRun == HasNodeName(mnode) /\ Has(ce, key)
        colsOk == HasNodeName(mnode)
                  /\ (Has(ce, key) => ParseDataModelColumns(key, mnode, Get(ce, key)).ok)
        nonTest == colsOk /\ mnode.resource_type # "test"
        ownerRun == nonTest /\ mnode.database # Missing /\ mnode.schema # Missing
                    /\ Has(ce, key)
    IN (IF colsRun THEN ParseDataModelColumns(key, mnode, Get(ce, key)).warns ELSE {})
       \cup (IF nonTest THEN ParseDataModelUpstream(me, mnode).warns ELSE {})
       \cup (IF ownerRun /\ OwnerNotFound(st, Get(ce, key).metadata.owner)
             THEN {Warn("owner", key)} ELSE {})

\* one iteration of the loop of _parse_data_model (lines 79-145)
ParseOne(st, me, ce, acc, key) ==
    LET mnode == Get(me, key)
        logged == [acc EXCEPT !.log = @ \cup ParseWarns(st, me, ce, key, mnode)]
    IN IF ParseRaises(ce, key, mnode)
       THEN [logged EXCEPT !.log = @ \cup {Warn("parse", key)}]
       ELSE IF mnode.resource_type = "test"
       THEN [logged EXCEPT !.dbt_tests = Put(@, key, mnode)]
       ELSE [logged EXCEPT
               !.data_models = Put(@, ModelFqn(mnode),
                   MakeDataModel(st, me, mnode, Get(ce, key),
                       ParseDataModelColumns(key, mnode, Get(ce, key)).val)),
               !.built = Put(@, ModelFqn(mnode), key)]

RECURSIVE ParseLoop(_, _, _, _, _)
ParseLoop(st, me, ce, acc, todo) ==
    IF todo = <<>> THEN acc
    ELSE ParseLoop(st, me, ce, ParseOne(st, me, ce, acc, Head(todo).k), Tail(todo))

\* a variant of Gate that does not look at the configuration section
Gate_IgnoresConfig == dbt_manifest.present /\ dbt_catalog.present

\* the gate of lines 65-69, 243-247, 292-296
Gate == dbtConfigSource /\ dbt_manifest.present /\ dbt_catalog.present

\* _parse_data_model
ParseDataModel ==
    /\ pc = "parse"
    /\ IF Gate
       THEN LET me == DictMerge(dbt_manifest.nodes, dbt_manifest.sources)
                ce == DictMerge(dbt_catalog.nodes, dbt_catalog.sources)
                out == ParseLoop(store, me, ce,
                          [data_models |-> data_models, dbt_tests |-> dbt_tests,
                           log |-> log, built |-> built], me)
            IN /\ manifest_entities' = me
               /\ catalog_entities' = ce
               /\ data_models' = out.data_models
               /\ dbt_tests' = out.dbt_tests
               /\ log' = out.log
               /\ built' = out.built
       ELSE UNCHANGED <<manifest_entities, catalog_entities, data_models,
                        dbt_tests, log, built>>
    /\ pc' = "lineage"
    /\ idx' = 1
    /\ UNCHANGED <<dbtConfigSource, dbt_manifest, dbt_catalog, dbt_run_results,
                   store, pending, lineage, suites, definitions, cases, results>>

\* ----------------------------------------------------- create_dbt_lineage
\* the (data_model_name, upstream_node) pairs in the order of the two loops
RECURSIVE UpstreamPairs(_, _)
UpstreamPairs(name, upstream) ==
    IF upstream = <<>> THEN <<>>
    ELSE <<[to |-> name, from |-> Head(upstream)]>> \o UpstreamPairs(name, Tail(upstream))

RECURSIVE LineagePairs(_)
LineagePairs(dm) ==
    IF dm = <<>> THEN <<>>
    ELSE UpstreamPairs(Head(dm).k, Head(dm).v.upstream) \o LineagePairs(Tail(dm))

\* one of the two get_by_name calls raises (lines 212-217)
LineageRaises(st, pair) ==
    LookupRaises(st, "Table", pair.from) \/ LookupRaises(st, "Table", pair.to)

\* a variant of LineageYields that is content with one endpoint
LineageYields_EitherEndpoint(st, pair) ==
    /\ ~LineageRaises(st, pair)
    /\ \/ LookupFinds(st, "Table", pair.from)
       \/ LookupFinds(st, "Table", pair.to)

\* if from_entity and to_entity (line 218)
LineageYields(st, pair) ==
    /\ ~LineageRaises(st, pair)
    /\ LookupFinds(st, "Table", pair.from)
    /\ LookupFinds(st, "Table", pair.to)

\* the AddLineageRequest of lines 219-230
LineageEdge(pair) ==
    [fromEntity |-> [id |-> EntityId("Table", pair.from), type |-> "table"],
     toEntity |-> [id |-> EntityId("Table", pair.to), type |-> "table"]]

\* one iteration of the inner loop of create_dbt_lineage
LineageStep ==
    /\ pc = "lineage"
    /\ idx <= Len(LineagePairs(data_models))
    /\ LET pair == LineagePairs(data_models)[idx]
       IN /\ lineage' = IF LineageYields(store, pair)
                        THEN Append(lineage, LineageEdge(pair)) ELSE lineage
          /\ log' = IF LineageRaises(store, pair)
                    THEN log \cup {Warn("lineage", pair.from)} ELSE log
    /\ idx' = idx + 1
    /\ UNCHANGED <<dbtConfigSource, dbt_manifest, dbt_catalog, dbt_run_results,
                   manifest_entities, catalog_entities, data_models, dbt_tests,
                   store, pending, suites, definitions, cases, results, built, pc>>

\* the generator is exhausted; the caller goes on to the test suites
LineageExhausted ==
    /\ pc = "lineage"
    /\ idx > Len(LineagePairs(data_models))
    /\ pc' = "suites"
    /\ idx' = 1
    /\ UNCHANGED <<dbtConfigSource, dbt_manifest, dbt_catalog, dbt_run_results,
                   manifest_entities, catalog_entities, data_models, dbt_tests,
                   store, pending, lineage, suites, definitions, cases, results,
                   log, built>>

\* ------------------------------------- create_dbt_tests_suite_definition
\* dbt_test["meta"].get("test_suite_name", "DBT_TEST_SUITE")
TestSuiteName(dbt_test) ==
    IF dbt_test.meta.test_suite_name = Missing THEN "DBT_TEST_SUITE"
    ELSE dbt_test.meta.test_suite_name

TestSuiteDescription(dbt_test) ==
    IF dbt_test.meta.test_suite_desciption = Missing THEN ""
    ELSE dbt_test.meta.test_suite_desciption

\* create_test_case_parameter_definitions
ParameterDefinitionRaises(dbt_test) ==
    ~dbt_test.test_metadata.present \/ dbt_test.test_metadata.name = Missing

CreateTestCaseParameterDefinitions(dbt_test) ==
    <<[name |-> dbt_test.test_metadata.name,
       displayName |-> dbt_test.test_metadata.name,
       required |-> FALSE]>>

\* lines 250-258 raise: no meta, or the suite lookup raises
SuiteRaises(st, dbt_test) ==
    \/ ~dbt_test.meta.present
    \/ LookupRaises(st, "TestSuite", TestSuiteName(dbt_test))

\* line 259: if not check_test_suite_exists
SuiteYields(st, dbt_test) ==
    /\ ~SuiteRaises(st, dbt_test)
    /\ ~LookupFinds(st, "TestSuite", TestSuiteName(dbt_test))

CreateTestSuiteRequest(dbt_test) ==
    [name |-> TestSuiteName(dbt_test), description |-> TestSuiteDescription(dbt_test)]

\* lines 265-283 raise: no name, the definition lookup raises, or the request
\* cannot be built
DefinitionRaises(st, dbt_test) ==
    \/ dbt_test.name = Missing
    \/ LookupRaises(st, "TestDefinition", dbt_test.name)
    \/ /\ ~LookupFinds(st, "TestDefinition", dbt_test.name)
       /\ \/ dbt_test.description = Missing
          \/ ParameterDefinitionRaises(dbt_test)

\* line 269: if not check_test_definition_exists
DefinitionYields(st, dbt_test) ==
    /\ ~SuiteRaises(st, dbt_test)
    /\ ~DefinitionRaises(st, dbt_test)
    /\ ~LookupFinds(st, "TestDefinition", dbt_test.name)

CreateTestDefinitionRequest(dbt_test) ==
    [name |-> dbt_test.name,
     description |-> dbt_test.description,
     entityType |-> IF Truthy(dbt_test.column_name) THEN "COLUMN" ELSE "TABLE",
     testPlatforms |-> <<"DBT">>,
     parameterDefinition |-> CreateTestCaseParameterDefinitions(dbt_test)]

\* an exception in the loop leaves the loop: the try block of line 242 is
\* around the whole for statement
SuiteDefinitionAborts(st, dbt_test) ==
    SuiteRaises(st, dbt_test) \/ DefinitionRaises(st, dbt_test)

\* one iteration of the loop of create_dbt_tests_suite_definition
SuiteDefinitionStep ==
    /\ pc = "suites"
    /\ Gate
    /\ idx <= Len(dbt_tests)
    /\ LET key == dbt_tests[idx].k
           dbt_test == dbt_tests[idx].v
           ys == SuiteYields(store, dbt_test)
           yd == DefinitionYields(store, dbt_test)
       IN /\ suites' = IF ys THEN Append(suites, CreateTestSuiteRequest(dbt_test))
                       ELSE suites
          /\ definitions' = IF yd
                            THEN Append(definitions, CreateTestDefinitionRequest(dbt_test))
                            ELSE definitions
          /\ pending' = pending
                \cup (IF ys THEN {<<"TestSuite", TestSuiteName(dbt_test)>>} ELSE {})
                \cup (IF yd THEN {<<"TestDefinition", dbt_test.name>>} ELSE {})
          /\ IF SuiteDefinitionAborts(store, dbt_test)
             THEN /\ log' = log \cup {Warn("suite_definition", key)}
                  /\ pc' = "cases"
                  /\ idx' = 1
             ELSE /\ log' = log
                  /\ pc' = pc
                  /\ idx' = idx + 1
    /\ UNCHANGED <<dbtConfigSource, dbt_manifest, dbt_catalog, dbt_run_results,
                   manifest_entities, catalog_entities, data_models, dbt_tests,
                   store, lineage, cases, results, built>>

\* the generator is exhausted (or the gate is closed); the caller goes on to
\* the test cases
SuiteDefinitionExhausted ==
    /\ pc = "suites"
    /\ ~Gate \/ idx > Len(dbt_tests)
    /\ pc' = "cases"
    /\ idx' = 1
    /\ UNCHANGED <<dbtConfigSource, dbt_manifest, dbt_catalog, dbt_run_results,
                   manifest_entities, catalog_entities, data_models, dbt_tests,
                   store, pending, lineage, suites, definitions, cases, results,
                   log, built>>

\* the caller's sink writes a request it has pulled into the catalog; until
\* then get_by_name does not return the suite or definition
CatalogApply ==
    /\ pc \in {"suites", "cases"}
    /\ \E req \in pending :
        /\ pending' = pending \ {req}
        /\ store' = IF req[1] = "TestSuite"
                    THEN [store EXCEPT !.suites = @ \cup {req[2]}]
                    ELSE [store EXCEPT !.defs = @ \cup {req[2]}]
    /\ UNCHANGED <<dbtConfigSource, dbt_manifest, dbt_catalog, dbt_run_results,
                   manifest_entities, catalog_entities, data_models, dbt_tests,
                   lineage, suites, definitions, cases, results, log, built,
                   pc, idx>>

\* ------------------------------------------------- create_dbt_test_cases
\* dict.get(key): a missing key reads as None
GetOrNone(x) == IF x = Missing THEN None ELSE x

\* the entity link of one dependency node (lines 424-438)
EntityLink(table_fqn, column_name) ==
    IF Truthy(column_name)
    THEN "<#E::table::" \o table_fqn \o "::columns::" \o column_name \o ">"
    ELSE "<#E::table::" \o table_fqn \o ">"

NodeEntityLink(model, dbt_test) ==
    EntityLink(FqnTable(ServiceName, GetOrNone(model.database),
                        GetOrNone(model.schema), GetOrNone(model.name)),
               GetOrNone(dbt_test.column_name))

\* generate_entity_link raises: no depends_on.nodes, or a dependency id that
\* is not in the merged manifest (model is None)
GenerateEntityLinkRaises(me, dbt_test) ==
    \/ ~dbt_test.depends_on.present
    \/ \E i \in DOMAIN dbt_test.depends_on.nodes :
          ~Has(me, dbt_test.depends_on.nodes[i])

GenerateEntityLink(me, dbt_test) ==
    [i \in DOMAIN dbt_test.depends_on.nodes |->
        NodeEntityLink(Get(me, dbt_test.depends_on.nodes[i]), dbt_test)]

\* ",".join(values)
RECURSIVE JoinValues(_)
JoinValues(values) ==
    IF values = <<>> THEN ""
    ELSE IF Len(values) = 1 THEN Head(values)
    ELSE Head(values) \o "," \o JoinValues(Tail(values))

\* create_test_case_parameter_values
ParameterValuesRaises(dbt_test) ==
    \/ ~dbt_test.test_metadata.present
    \/ ~dbt_test.test_metadata.kwargs.present
    \/ dbt_test.test_metadata.name = Missing

CreateTestCaseParameterValues(dbt_test) ==
    <<[name |-> dbt_test.test_metadata.name,
       value |-> IF dbt_test.test_metadata.kwargs.values = Missing THEN ""
                 ELSE JoinValues(dbt_test.test_metadata.kwargs.values)]>>

\* building one CreateTestCaseRequest raises (lines 302-325): a field is
\* missing, or a lookup raises or returns None (None has no id)
TestCaseRaises(st, dbt_test) ==
    \/ ~dbt_test.meta.present
    \/ dbt_test.name = Missing
    \/ dbt_test.description = Missing
    \/ LookupRaises(st, "TestDefinition", dbt_test.name)
    \/ ~LookupFinds(st, "TestDefinition", dbt_test.name)
    \/ LookupRaises(st, "TestSuite", TestSuiteName(dbt_test))
    \/ ~LookupFinds(st, "TestSuite", TestSuiteName(dbt_test))
    \/ ParameterValuesRaises(dbt_test)

CreateTestCaseRequest(dbt_test, entity_link) ==
    [name |-> dbt_test.name,
     description |-> dbt_test.description,
     testDefinition |-> [id |-> EntityId("TestDefinition", dbt_test.name),
                         type |-> "testDefinition"],
     entityLink |-> entity_link,
     testSuite |-> [id |-> EntityId("TestSuite", TestSuiteName(dbt_test)),
                    type |-> "testSuite"],
     parameterValues |-> CreateTestCaseParameterValues(dbt_test)]

\* the try block of one test node raises (lines 299-330)
TestNodeRaises(st, me, dbt_test) ==
    \/ GenerateEntityLinkRaises(me, dbt_test)
    \/ dbt_test.depends_on.nodes # <<>> /\ TestCaseRaises(st, dbt_test)

\* a variant of TestCasesOf that stops after the first entity link
TestCasesOf_FirstLinkOnly(st, me, dbt_test) ==
    IF TestNodeRaises(st, me, dbt_test) \/ dbt_test.depends_on.nodes = <<>> THEN <<>>
    ELSE <<CreateTestCaseRequest(dbt_test, GenerateEntityLink(me, dbt_test)[1])>>

\* the requests one test node yields
TestCasesOf(st, me, dbt_test) ==
    IF TestNodeRaises(st, me, dbt_test) THEN <<>>
    ELSE LET links == GenerateEntityLink(me, dbt_test)
         IN [i \in DOMAIN links |-> CreateTestCaseRequest(dbt_test, links[i])]

\* one iteration of the outer loop of create_dbt_test_cases
TestCaseStep ==
    /\ pc = "cases"
    /\ Gate
    /\ idx <= Len(dbt_tests)
    /\ LET key == dbt_tests[idx].k
           dbt_test == dbt_tests[idx].v
       IN /\ cases' = cases \o TestCasesOf(store, manifest_entities, dbt_test)
          /\ log' = IF TestNodeRaises(store, manifest_entities, dbt_test)
                    THEN log \cup {Warn("test_case", key)} ELSE log
    /\ idx' = idx + 1
    /\ UNCHANGED <<dbtConfigSource, dbt_manifest, dbt_catalog, dbt_run_results,
                   manifest_entities, catalog_entities, data_models, dbt_tests,
                   store, pending, lineage, suites, definitions, results, built,
                   pc>>

\* the loop is over: line 331 calls update_dbt_test_result; behind a closed
\* gate nothing is called
TestCasesExhausted ==
    /\ pc = "cases"
    /\ ~Gate \/ idx > Len(dbt_tests)
    /\ pc' = IF Gate /\ dbt_run_results.present THEN "results" ELSE "done"
    /\ idx' = 1
    /\ UNCHANGED <<dbtConfigSource, dbt_manifest, dbt_catalog, dbt_run_results,
                   manifest_entities, catalog_entities, data_models, dbt_tests,
                   store, pending, lineage, suites, definitions, cases, results,
                   log, built>>

\* ------------------------------------------------- update_dbt_test_result
\* lines 342-349
TestCaseStatus(status) ==
    CASE status = "success" -> [status |-> "Success", value |-> "1"]
      [] status = "failure" -> [status |-> "Failed", value |-> "0"]
      [] OTHER -> [status |-> "Aborted", value |-> "-1"]

\* datetime.strptime(completed_at, "%Y-%m-%dT%H:%M:%S.%fZ"): seconds and
\* microseconds since the epoch; a string of another shape raises
StrptimeRaises(completed_at) ==
    completed_at \notin {"1970-01-01T00:00:01.500000Z", "1970-01-02T00:00:00.000000Z"}

Strptime(completed_at) ==
    CASE completed_at = "1970-01-01T00:00:01.500000Z" -> [sec |-> 1, usec |-> 500000]
      [] completed_at = "1970-01-02T00:00:00.000000Z" -> [sec |-> 86400, usec |-> 0]

\* unix_time_millis
UnixTimeMillis(dt) == dt.sec * 1000 + dt.usec \div 1000

\* lines 353-356: the completed_at of the last timing entry named "execute"
RECURSIVE CompletedAt(_, _)
CompletedAt(timing, acc) ==
    IF timing = <<>> THEN acc
    ELSE CompletedAt(Tail(timing),
            IF Head(timing).name = "execute" THEN GetOrNone(Head(timing).completed_at)
            ELSE acc)

\* lines 341-373 raise before the test node is looked up
ResultRecordRaises(rec) ==
    \/ rec.timing.present = FALSE
    \/ /\ Truthy(CompletedAt(rec.timing.entries, None))
       /\ StrptimeRaises(CompletedAt(rec.timing.entries, None))
    \/ rec.unique_id = Missing

\* the TestCaseResult of lines 364-373 (an empty timestamp stands for None)
MakeTestCaseResult(rec) ==
    [timestamp |-> IF Truthy(CompletedAt(rec.timing.entries, None))
                   THEN <<UnixTimeMillis(Strptime(CompletedAt(rec.timing.entries, None)))>>
                   ELSE <<>>,
     testCaseStatus |-> TestCaseStatus(GetOrNone(rec.status)).status,
     testResultValue |-> <<[name |-> rec.unique_id,
                            value |-> TestCaseStatus(GetOrNone(rec.status)).value]>>]

\* the test-case name rebuilt for one dependency node (lines 380-391)
ResultCaseFqn(model, dbt_test_node) ==
    FqnTestCase(ServiceName, GetOrNone(model.database), GetOrNone(model.schema),
                GetOrNone(model.name), GetOrNone(dbt_test_node.column_name),
                dbt_test_node.name)

\* one pass of the loop of line 378 raises: the dependency id is not in the
\* merged manifest, the test has no name, or add_test_case_results raises
SubmitRaises(st, me, dbt_test_node, node) ==
    \/ ~Has(me, node)
    \/ dbt_test_node.name = Missing
    \/ LookupRaises(st, "TestCase", ResultCaseFqn(Get(me, node), dbt_test_node))

\* the submissions of one result record, up to the first one that raises
RECURSIVE SubmitLoop(_, _, _, _, _, _)
SubmitLoop(st, me, dbt_test_node, nodes, result, acc) ==
    IF nodes = <<>> THEN acc
    ELSE IF SubmitRaises(st, me, dbt_test_node, Head(nodes))
    THEN [acc EXCEPT !.raised = TRUE]
    ELSE SubmitLoop(st, me, dbt_test_node, Tail(nodes), result,
            [acc EXCEPT !.val = Append(@,
                [test_case_name |-> ResultCaseFqn(Get(me, Head(nodes)), dbt_test_node),
                 test_results |-> result])])

\* a variant of SubmitRecord that leaves the loop after the first dependency
SubmitRecord_FirstDependencyOnly(st, me, tests, rec) ==
    IF ResultRecordRaises(rec) THEN [val |-> <<>>, raised |-> TRUE]
    ELSE IF ~Has(tests, rec.unique_id) THEN [val |-> <<>>, raised |-> FALSE]
    ELSE IF ~Get(tests, rec.unique_id).depends_on.present
    THEN [val |-> <<>>, raised |-> TRUE]
    ELSE SubmitLoop(st, me, Get(tests, rec.unique_id),
                    SubSeq(Get(tests, rec.unique_id).depends_on.nodes, 1, 1),
                    MakeTestCaseResult(rec), [val |-> <<>>, raised |-> FALSE])

\* the body of the try block of one result record: [val, raised]
SubmitRecord(st, me, tests, rec) ==
    IF ResultRecordRaises(rec) THEN [val |-> <<>>, raised |-> TRUE]
    ELSE IF ~Has(tests, rec.unique_id) THEN [val |-> <<>>, raised |-> FALSE]
    ELSE IF ~Get(tests, rec.unique_id).depends_on.present
    THEN [val |-> <<>>, raised |-> TRUE]
    ELSE SubmitLoop(st, me, Get(tests, rec.unique_id),
                    Get(tests, rec.unique_id).depends_on.nodes,
                    MakeTestCaseResult(rec), [val |-> <<>>, raised |-> FALSE])

\* one iteration of the loop of update_dbt_test_result
UpdateResultStep ==
    /\ pc = "results"
    /\ idx <= Len(dbt_run_results.results)
    /\ LET out == SubmitRecord(store, manifest_entities, dbt_tests,
                               dbt_run_results.results[idx])
       IN /\ results' = results \o out.val
          /\ log' = IF out.raised THEN log \cup {Warn("result", ToString(idx))} ELSE log
    /\ idx' = idx + 1
    /\ UNCHANGED <<dbtConfigSource, dbt_manifest, dbt_catalog, dbt_run_results,
                   manifest_entities, catalog_entities, data_models, dbt_tests,
                   store, pending, lineage, suites, definitions, cases, built, pc>>

\* update_dbt_test_result returns, and with it create_dbt_test_cases
UpdateResultDone ==
    /\ pc = "results"
    /\ idx > Len(dbt_run_results.results)
    /\ pc' = "done"
    /\ idx' = 1
    /\ UNCHANGED <<dbtConfigSource, dbt_manifest, dbt_catalog, dbt_run_results,
                   manifest_entities, catalog_entities, data_models, dbt_tests,
                   store, pending, lineage, suites, definitions, cases, results,
                   log, built>>

\* --------------------------------------------------------- the artifacts
\* sequences over S of length at most n
SeqsUpTo(S, n) == UNION {[1..k -> S] : k \in 0..n}

NoMeta == [present |-> FALSE, test_suite_name |-> Missing,
           test_suite_desciption |-> Missing]
Meta(suite_name) == [present |-> TRUE, test_suite_name |-> suite_name,
                     test_suite_desciption |-> Missing]
NoTestMetadata == [present |-> FALSE, name |-> Missing,
                   kwargs |-> [present |-> FALSE, values |-> Missing]]
TestMetadata(name, values) ==
    [present |-> TRUE, name |-> name, kwargs |-> [present |-> TRUE, values |-> values]]

\* a model or source node of the manifest
ModelNode(resource_type, alias, name, database, schema, deps, columns) ==
    [resource_type |-> resource_type, alias |-> alias, name |-> name,
     database |-> database, schema |-> schema, description |-> "",
     raw_sql |-> "select 1", compiled_sql |-> Missing,
     root_path |-> "/proj", original_file_path |-> "models/" \o name \o ".sql",
     depends_on |-> [present |-> TRUE, nodes |-> deps],
     meta |-> Meta(Missing), column_name |-> Missing,
     test_metadata |-> NoTestMetadata, columns |-> columns]

\* a test node of the manifest
TestNode(alias, name, deps, column_name, meta, description, test_metadata) ==
    [resource_type |-> "test", alias |-> alias, name |-> name,
     database |-> "db", schema |-> "dbt_test__audit", description |-> description,
     raw_sql |-> "{{ test }}", compiled_sql |-> Missing,
     root_path |-> "/proj", original_file_path |-> "models/schema.yml",
     depends_on |-> [present |-> TRUE, nodes |-> deps],
     meta |-> meta, column_name |-> column_name,
     test_metadata |-> test_metadata, columns |-> <<>>]

\* a node of the catalog artifact
CatalogColumn(name, type, index, comment) ==
    [name |-> name, type |-> type, index |-> index, comment |-> comment]
CatalogNode(owner, columns) == [metadata |-> [owner |-> owner], columns |-> columns]

Entry(k, v) == [k |-> k, v |-> v]
Document(nodes, sources) == [present |-> TRUE, nodes |-> nodes, sources |-> sources]
NoDocument == [present |-> FALSE, nodes |-> <<>>, sources |-> <<>>]

\* a record of run_results.json
Timing(completed_at) ==
    [present |-> TRUE,
     entries |-> <<[name |-> "compile", completed_at |-> "1970-01-01T00:00:01.500000Z"],
                   [name |-> "execute", completed_at |-> completed_at]>>]
NoTiming == [present |-> FALSE, entries |-> <<>>]
ResultRecord(unique_id, status, timing) ==
    [unique_id |-> unique_id, status |-> status, timing |-> timing]
RunResults(recs) == [present |-> TRUE, results |-> recs]
NoRunResults == [present |-> FALSE, results |-> <<>>]

\* the metadata catalog at the start of the run
Store(tables, suiteNames, defNames, users, teams, raising) ==
    [tables |-> tables, suites |-> suiteNames, defs |-> defNames,
     users |-> users, teams |-> teams, raising |-> raising]

\* the state after construction, for given artifacts and a given catalog
Start(config, manifest, catalog, run_results, st) ==
    /\ dbtConfigSource = config
    /\ dbt_manifest = manifest
    /\ dbt_catalog = catalog
    /\ dbt_run_results = run_results
    /\ store = st
    /\ manifest_entities = <<>>
    /\ catalog_entities = <<>>
    /\ data_models = <<>>
    /\ dbt_tests = <<>>
    /\ pending = {}
    /\ lineage = <<>>
    /\ suites = <<>>
    /\ definitions = <<>>
    /\ cases = <<>>
    /\ results = <<>>
    /\ log = {}
    /\ built = <<>>
    /\ pc = "parse"
    /\ idx = 1

\* ---------------------------------------------------- the inputs drawn
TestKey1 == "test.t1"
TestKey2 == "test.t2"

IdColumn == Entry("ID", CatalogColumn("ID", "integer", 1, "cat id"))
NameColumn == Entry("name", CatalogColumn("name", "character varying(16)", 2, Missing))

ModelA(alias, database, schema, deps, columns) ==
    ModelNode("model", alias, "a", database, schema, deps, columns)
ModelB == ModelNode("model", "b", "b_v1", "db", "sc", <<"source.s">>, <<>>)
SourceS(database, schema) == ModelNode("source", Missing, "s", database, schema, <<>>, <<>>)

NotNull(deps, column_name, meta, description, test_metadata) ==
    TestNode("not_null_a_id", "not_null_a_id", deps, column_name, meta, description,
             test_metadata)
DefaultTest1 ==
    NotNull(<<"model.a">>, "id", Meta(Missing), "id is never null",
            TestMetadata("not_null", Missing))
Test2(name, suite_name) ==
    TestNode(name, name, <<"model.a">>, Missing, Meta(suite_name), "",
             TestMetadata("accepted_values", <<"x", "y">>))

ExecutedAt == "1970-01-02T00:00:00.000000Z"
DefaultResults == RunResults(<<ResultRecord(TestKey1, "success", Timing(ExecutedAt))>>)

FqnA == FqnTable(ServiceName, "db", "sc", "a")
FqnB == FqnTable(ServiceName, "db", "sc", "b")
FqnBName == FqnTable(ServiceName, "db", "sc", "b_v1")
FqnS == FqnTable(ServiceName, "db", "sc", "s")

EmptyStore == Store({}, {}, {}, {}, {}, {})
AllTablesStore == Store({FqnA, FqnB, FqnBName, FqnS}, {}, {}, {}, {}, {})

\* the owner of model.a in the catalog artifact, with the users and teams the
\* metadata catalog knows
OwnerCases ==
    {<<None, {}, {}>>} \cup
    {<<"bob", u, t>> : u \in {{}, {"*bob*"}}, t \in {{}, {"*bob*"}}}

\* resolve_all: aliases, null databases and schemas, catalog counterparts and
\* owners
InitParse ==
    \E aliasA \in {Missing, "s"}, dbA \in {None, "default", "db"},
       scA \in {None, "sc"}, catA \in BOOLEAN, dbS \in {None, "db"},
       catS \in BOOLEAN, own \in OwnerCases :
        Start(TRUE,
              Document(<<Entry("model.a",
                               ModelA(aliasA, dbA, scA, <<"source.s">>, <<>>)),
                         Entry(TestKey1, DefaultTest1)>>,
                       <<Entry("source.s", SourceS(dbS, "sc"))>>),
              Document(IF catA
                       THEN <<Entry("model.a", CatalogNode(own[1], <<IdColumn>>))>>
                       ELSE <<>>,
                       IF catS
                       THEN <<Entry("source.s", CatalogNode(None, <<NameColumn>>))>>
                       ELSE <<>>),
              DefaultResults,
              Store({FqnA, FqnS}, {}, {}, own[2], own[3], {}))

\* resolve_columns: what the manifest and the catalog say about two columns,
\* and a test node with neither alias nor name
ManifestColumnCases == {"absent", Missing, None, "", "man id"}
ManifestColumns(d1, d2) ==
    (IF d1 = "absent" THEN <<>> ELSE <<Entry("id", [description |-> d1])>>)
    \o (IF d2 = "absent" THEN <<>> ELSE <<Entry("name", [description |-> d2])>>)

InitColumns ==
    \E type1 \in {"integer", Missing}, comment1 \in {Missing, None, "", "cat id"},
       d1 \in ManifestColumnCases, comment2 \in {Missing, "", "cat name"},
       d2 \in {"absent", "", "man name"}, namedT \in BOOLEAN :
        Start(TRUE,
              Document(<<Entry("model.a",
                               ModelA(Missing, "db", "sc", <<"source.s">>,
                                      ManifestColumns(d1, d2))),
                         Entry(TestKey1,
                               IF namedT THEN DefaultTest1
                               ELSE [DefaultTest1 EXCEPT !.alias = Missing,
                                                         !.name = Missing])>>,
                       <<Entry("source.s", SourceS("db", "sc"))>>),
              Document(<<Entry("model.a",
                               CatalogNode(None,
                                   <<Entry("ID", CatalogColumn("ID", type1, 1, comment1)),
                                     Entry("name", CatalogColumn("name", "text", 2,
                                                                 comment2))>>))>>,
                       <<Entry("source.s", CatalogNode(None, <<NameColumn>>))>>),
              DefaultResults,
              AllTablesStore)

\* lineage: the dependencies of model.a, the tables the metadata catalog
\* holds, and the lookups that raise
InitLineage ==
    \E deps \in SeqsUpTo({"source.s", "model.b", "source.zz"}, MaxDeps),
       tables \in SUBSET {FqnA, FqnB, FqnBName, FqnS},
       raising \in {{}, {<<"Table", FqnS>>}, {<<"Table", FqnA>>}} :
        Start(TRUE,
              Document(<<Entry("model.a", ModelA(Missing, "db", "sc", deps, <<>>)),
                         Entry("model.b", ModelB),
                         Entry(TestKey1, DefaultTest1)>>,
                       <<Entry("source.s", SourceS("db", "sc"))>>),
              Document(<<Entry("model.a", CatalogNode(None, <<IdColumn>>)),
                         Entry("model.b", CatalogNode(None, <<>>))>>,
                       <<Entry("source.s", CatalogNode(None, <<NameColumn>>))>>),
              DefaultResults,
              Store(tables, {}, {}, {}, {}, raising))

\* the manifest and catalog of the test stages: model.a, source.s (with null
\* database and schema) and two test nodes
TestManifest(test1, test2) ==
    Document(<<Entry("model.a", ModelA(Missing, "db", "sc", <<"source.s">>, <<>>)),
               Entry(TestKey1, test1),
               Entry(TestKey2, test2)>>,
             <<Entry("source.s", SourceS(None, None))>>)
TestCatalog ==
    Document(<<Entry("model.a", CatalogNode(None, <<IdColumn>>))>>,
             <<Entry("source.s", CatalogNode(None, <<NameColumn>>))>>)

\* what a test node may lack
Defective(dbt_test, defect) ==
    CASE defect = "no_meta" -> [dbt_test EXCEPT !.meta = NoMeta]
      [] defect = "no_description" -> [dbt_test EXCEPT !.description = Missing]
      [] defect = "no_test_metadata" -> [dbt_test EXCEPT !.test_metadata = NoTestMetadata]
      [] OTHER -> dbt_test

SuiteNames == {"DBT_TEST_SUITE", "s1"}
DefinitionNames == {"not_null_a_id", "unique_a_id"}

\* suites and definitions: the first test's column and missing fields, a
\* second test that may share the first one's names, what the metadata catalog
\* already holds, and the lookups that raise
InitEmit ==
    \E column_name \in {Missing, "id"},
       defect \in {"ok", "no_meta", "no_description", "no_test_metadata"},
       name2 \in DefinitionNames, suite2 \in {Missing, "s1"},
       held \in BOOLEAN,
       raising \in {{}, {<<"TestSuite", "DBT_TEST_SUITE">>},
                    {<<"TestDefinition", "not_null_a_id">>}} :
        Start(TRUE,
              TestManifest(
                  Defective(NotNull(<<"model.a">>, column_name, Meta(Missing),
                                    "id is never null",
                                    TestMetadata("not_null", Missing)), defect),
                  Test2(name2, suite2)),
              TestCatalog,
              DefaultResults,
              Store({}, IF held THEN SuiteNames ELSE {},
                    IF held THEN DefinitionNames ELSE {}, {}, {}, raising))

\* cases: the first test's dependencies, column and missing fields, what the
\* metadata catalog already holds, and the lookups that raise
InitCases ==
    \E deps \in SeqsUpTo({"model.a", "source.s", "model.zz"}, MaxDeps),
       column_name \in {Missing, "id"},
       defect \in {"ok", "no_meta", "no_description", "no_test_metadata"},
       held \in BOOLEAN,
       raising \in {{}, {<<"TestSuite", "DBT_TEST_SUITE">>},
                    {<<"TestDefinition", "not_null_a_id">>}} :
        Start(TRUE,
              TestManifest(
                  Defective(NotNull(deps, column_name, Meta(Missing),
                                    "id is never null",
                                    TestMetadata("not_null", Missing)), defect),
                  Test2("unique_a_id", Missing)),
              TestCatalog,
              DefaultResults,
              Store({}, IF held THEN SuiteNames ELSE {},
                    IF held THEN DefinitionNames ELSE {}, {}, {}, raising))

\* results: the records of run_results.json, the first test's dependencies,
\* and the submissions that raise
ResultRecords ==
    {ResultRecord(TestKey1, "success", Timing(ExecutedAt)),
     ResultRecord(TestKey1, "failure", NoTiming),
     ResultRecord(TestKey2, "failure", Timing(ExecutedAt)),
     ResultRecord("test.zz", "error", Timing(ExecutedAt))}

RaisingSubmissions ==
    {<<"TestCase", FqnTestCase(ServiceName, None, None, "s", c, "not_null_a_id")>> :
        c \in {None, "id"}}

InitResults ==
    \E deps \in SeqsUpTo({"source.s", "model.zz"}, MaxDeps),
       column_name \in {Missing, "id"},
       defect \in {"ok", "no_description"},
       recs \in SeqsUpTo(ResultRecords, MaxResults),
       raising \in {{}, RaisingSubmissions} :
        Start(TRUE,
              TestManifest(
                  Defective(NotNull(deps, column_name, Meta(Missing),
                                    "id is never null",
                                    TestMetadata("not_null", Missing)), defect),
                  Test2("unique_a_id", Missing)),
              TestCatalog,
              RunResults(recs),
              Store({}, SuiteNames, DefinitionNames, {}, {}, raising))

\* the gate: the configuration section and the two documents, present or not
InitGate ==
    \E config \in BOOLEAN, manifest \in BOOLEAN, catalog \in BOOLEAN,
       run \in {NoRunResults, DefaultResults,
                RunResults(<<ResultRecord(TestKey1, "failure", Timing(ExecutedAt)),
                             ResultRecord(TestKey2, "error", Timing("yesterday"))>>)},
       held \in BOOLEAN, tables \in {{}, {FqnA, FqnS}} :
        Start(config,
              IF manifest THEN TestManifest(DefaultTest1, Test2("unique_a_id", "s1"))
              ELSE NoDocument,
              IF catalog THEN TestCatalog ELSE NoDocument,
              run,
              Store(tables, IF held THEN SuiteNames ELSE {},
                    IF held THEN DefinitionNames ELSE {}, {}, {}, {}))

Init ==
    InitParse \/ InitColumns \/ InitLineage \/ InitEmit \/ InitCases \/ InitResults
    \/ InitGate

Next ==
    \/ ParseDataModel
    \/ LineageStep
    \/ LineageExhausted
    \/ SuiteDefinitionStep
    \/ SuiteDefinitionExhausted
    \/ CatalogApply
    \/ TestCaseStep
    \/ TestCasesExhausted
    \/ UpdateResultStep
    \/ UpdateResultDone

Spec == Init /\ [][Next]_vars

\* ================================================================ claims

\* C1: during one run of create_dbt_tests_suite_definition at most one
\* create-suite request is emitted per distinct suite name and at most one
\* create-definition request per distinct test name, also when several test
\* nodes share the name and get_by_name does not yet show a request emitted
\* earlier in the run.
C1_AtMostOncePerName ==
    /\ \A i, j \in DOMAIN suites : suites[i].name = suites[j].name => i = j
    /\ \A i, j \in DOMAIN definitions :
          definitions[i].name = definitions[j].name => i = j

\* C3: a test node that fails in create_dbt_tests_suite_definition is skipped
\* alone: once the generator has ended, every test node that has all its fields
\* and whose lookups do not raise has its suite and its definition in the
\* catalog or among the requests emitted.
C3_FailureSkipsOnlyThatNode ==
    (pc \in {"cases", "results", "done"}
     /\ dbtConfigSource /\ dbt_manifest.present /\ dbt_catalog.present)
    => \A i \in DOMAIN dbt_tests :
          LET t == dbt_tests[i].v
              suite == IF t.meta.test_suite_name = Missing THEN "DBT_TEST_SUITE"
                       ELSE t.meta.test_suite_name
              sound == /\ t.meta.present
                       /\ t.name # Missing
                       /\ t.description # Missing
                       /\ t.test_metadata.present
                       /\ t.test_metadata.name # Missing
                       /\ <<"TestSuite", suite>> \notin store.raising
                       /\ <<"TestDefinition", t.name>> \notin store.raising
          IN sound =>
                /\ suite \in store.suites \cup {suites[k].name : k \in DOMAIN suites}
                /\ t.name \in store.defs
                               \cup {definitions[k].name : k \in DOMAIN definitions}

\* C9: a non-test manifest node without a catalog counterpart under its key
\* still gets a DataModel in the map, with an empty column list and no owner.
C9_NoCatalogCounterpartStillStored ==
    (pc # "parse" /\ dbtConfigSource /\ dbt_manifest.present /\ dbt_catalog.present)
    => \A i \in DOMAIN manifest_entities :
          LET key == manifest_entities[i].k
              m == manifest_entities[i].v
              fqn == ServiceName
                     \o "." \o (IF m.database \in {None, ""} THEN "default" ELSE m.database)
                     \o "." \o (IF m.schema \in {None, ""} THEN "default" ELSE m.schema)
                     \o "." \o (IF m.alias # Missing THEN m.alias ELSE m.name)
          IN (m.resource_type # "test" /\ ~Has(catalog_entities, key))
             => /\ Has(data_models, fqn)
                /\ Get(built, fqn) = key
                   => /\ Get(data_models, fqn).columns = <<>>
                      /\ Get(data_models, fqn).owner.type = "none"

\* C10: the description of every column _parse_data_model_columns produces is
\* the manifest column's description text when there is some, else the catalog
\* column's comment when there is one, else none.
C10_DescriptionPrecedence ==
    \A i \in DOMAIN data_models :
        LET key == Get(built, data_models[i].k)
            manifest_columns == Get(manifest_entities, key).columns
            ccolumns == Get(catalog_entities, key).columns
        IN \A c \in DOMAIN data_models[i].v.columns :
              LET col == data_models[i].v.columns[c]
              IN \E j \in DOMAIN ccolumns :
                    LET ck == ccolumns[j].k
                        cc == ccolumns[j].v
                        text == IF \E n \in DOMAIN manifest_columns :
                                      manifest_columns[n].k = Lower(ck)
                                THEN Get(manifest_columns, Lower(ck)).description
                                ELSE None
                    IN /\ Lower(cc.name) = col.name
                       /\ col.description =
                            IF text \notin {Missing, None, ""} THEN text
                            ELSE IF cc.comment \notin {Missing, None, ""} THEN cc.comment
                            ELSE None

\* C2 as stated: after _parse_data_model no test node has a DataModel and every
\* test node is in the TestNode map under its id; every non-test node processed
\* without exception is stored once under its own qualified name, so the map
\* has as many entries as there are such nodes.
C2_OneEntryPerNode ==
    (pc # "parse" /\ dbtConfigSource /\ dbt_manifest.present /\ dbt_catalog.present)
    => LET fqn(m) ==
               ServiceName
               \o "." \o (IF m.database \in {None, ""} THEN "default" ELSE m.database)
               \o "." \o (IF m.schema \in {None, ""} THEN "default" ELSE m.schema)
               \o "." \o (IF m.alias # Missing THEN m.alias ELSE m.name)
           isTest(i) == manifest_entities[i].v.resource_type = "test"
           raised(i) == Warn("parse", manifest_entities[i].k) \in log
           stored == {i \in DOMAIN manifest_entities : ~isTest(i) /\ ~raised(i)}
       IN /\ \A i \in DOMAIN manifest_entities :
                isTest(i) =>
                   /\ \A j \in DOMAIN built : built[j].v # manifest_entities[i].k
                   /\ Has(dbt_tests, manifest_entities[i].k)
          /\ \A i \in stored : Has(data_models, fqn(manifest_entities[i].v))
          /\ Len(data_models) = Cardinality(stored)

\* C2 as amended: no test node has a DataModel, and every test node whose
\* processing raised no exception is in the TestNode map under its id; every
\* non-test node processed without exception has a DataModel under its own
\* qualified name; the map has one entry per distinct qualified name of those
\* nodes, so nodes that share a qualified name share one entry.
C2_OneEntryPerQualifiedName ==
    (pc # "parse" /\ dbtConfigSource /\ dbt_manifest.present /\ dbt_catalog.present)
    => LET fqn(m) ==
               ServiceName
               \o "." \o (IF m.database \in {None, ""} THEN "default" ELSE m.database)
               \o "." \o (IF m.schema \in {None, ""} THEN "default" ELSE m.schema)
               \o "." \o (IF m.alias # Missing THEN m.alias ELSE m.name)
           isTest(i) == manifest_entities[i].v.resource_type = "test"
           raised(i) == Warn("parse", manifest_entities[i].k) \in log
           stored == {i \in DOMAIN manifest_entities : ~isTest(i) /\ ~raised(i)}
       IN /\ \A i \in DOMAIN manifest_entities :
                isTest(i) =>
                   /\ \A j \in DOMAIN built : built[j].v # manifest_entities[i].k
                   /\ ~raised(i) =>
                         /\ Has(dbt_tests, manifest_entities[i].k)
                         /\ Get(dbt_tests, manifest_entities[i].k) = manifest_entities[i].v
          /\ \A i \in stored : Has(data_models, fqn(manifest_entities[i].v))
          /\ Keys(data_models) = {fqn(manifest_entities[i].v) : i \in stored}
          /\ \A i, j \in DOMAIN data_models :
                data_models[i].k = data_models[j].k => i = j
          /\ Len(data_models) = Cardinality({fqn(manifest_entities[i].v) : i \in stored})

\* C2 witness: the run is over, two non-test nodes were processed without
\* exception under one qualified name, and the map holds the one entry.
C2_Witness ==
    /\ pc = "done"
    /\ Len(data_models) = 1
    /\ Len(dbt_tests) = 1
    /\ \E i, j \in DOMAIN manifest_entities :
          /\ i # j
          /\ manifest_entities[i].v.resource_type # "test"
          /\ manifest_entities[j].v.resource_type # "test"
          /\ Warn("parse", manifest_entities[i].k) \notin log
          /\ Warn("parse", manifest_entities[j].k) \notin log
          /\ manifest_entities[i].v.alias = "s"

\* C4: for every DataModel of the map and every name of its upstream list,
\* create_dbt_lineage yields an edge for the pair exactly when the lookup of the
\* upstream table and the lookup of the model's own table both return an
\* entity; the edge runs from the upstream table's id to the model table's id
\* with type "table"; a lookup that returns None or raises skips that pair only.
C4_EdgeIffBothEndpointsFound ==
    LET pairs == LineagePairs(data_models)
        seen == IF pc = "lineage" THEN idx - 1 ELSE Len(pairs)
        Both(p) == /\ <<"Table", p.from>> \notin store.raising
                   /\ <<"Table", p.to>> \notin store.raising
                   /\ p.from \in store.tables
                   /\ p.to \in store.tables
        kept == SelectSeq(SubSeq(pairs, 1, seen), Both)
    IN lineage =
         [k \in DOMAIN kept |->
            [fromEntity |-> [id |-> "id:Table:" \o kept[k].from, type |-> "table"],
             toEntity |-> [id |-> "id:Table:" \o kept[k].to, type |-> "table"]]]

\* C4 witness: the lineage generator is exhausted; the lookup of an earlier
\* pair raised and a later pair, with both tables in the catalog, was yielded.
C4_Witness ==
    /\ pc = "suites"
    /\ Len(lineage) >= 1
    /\ \E i, j \in DOMAIN LineagePairs(data_models) :
          LET pi == LineagePairs(data_models)[i]
              pj == LineagePairs(data_models)[j]
          IN /\ i < j
             /\ <<"Table", pi.from>> \in store.raising
             /\ <<"Table", pj.from>> \notin store.raising
             /\ <<"Table", pj.to>> \notin store.raising
             /\ pj.from \in store.tables
             /\ pj.to \in store.tables

\* C6: when the configuration section, the manifest or the catalog document is
\* missing, the run does nothing: the DataModel and TestNode maps stay empty, no
\* lineage, suite, definition or case request is yielded and no test result is
\* submitted, whatever run results were supplied.
C6_ClosedGateIsNoOp ==
    ~(dbtConfigSource /\ dbt_manifest.present /\ dbt_catalog.present)
    => /\ data_models = <<>>
       /\ dbt_tests = <<>>
       /\ manifest_entities = <<>>
       /\ lineage = <<>>
       /\ suites = <<>>
       /\ definitions = <<>>
       /\ cases = <<>>
       /\ results = <<>>

\* C6 witness: a run with a manifest holding test nodes and with run results,
\* but without the configuration section, has been driven to its end.
C6_Witness ==
    /\ pc = "done"
    /\ ~dbtConfigSource
    /\ dbt_manifest.present
    /\ dbt_catalog.present
    /\ dbt_run_results.present
    /\ Len(dbt_run_results.results) >= 1
    /\ results = <<>>

C7_EveryDependencySubmitted ==
    pc = "done" =>
       LET recs == dbt_run_results.results
           found(i) == Has(dbt_tests, recs[i].unique_id)
           deps(i) == Get(dbt_tests, recs[i].unique_id).depends_on.nodes
           n(i) == IF found(i) THEN Len(deps(i)) ELSE 0
           total[i \in 0..Len(recs)] == IF i = 0 THEN 0 ELSE total[i - 1] + n(i)
           name(m, t) ==
               ServiceName
               \o "." \o (IF m.database = Missing THEN None ELSE m.database)
               \o "." \o (IF m.schema = Missing THEN None ELSE m.schema)
               \o "." \o (IF m.name = Missing THEN None ELSE m.name)
               \o "." \o (IF t.column_name = Missing THEN None ELSE t.column_name)
               \o "." \o t.name
       IN /\ Len(results) = total[Len(recs)]
          /\ \A i \in DOMAIN recs :
                found(i) =>
                   \A j \in DOMAIN deps(i) :
                      Has(manifest_entities, deps(i)[j])
                      => \E k \in DOMAIN results :
                            /\ results[k].test_case_name =
                                  name(Get(manifest_entities, deps(i)[j]),
                                       Get(dbt_tests, recs[i].unique_id))
                            /\ results[k].test_results.testResultValue[1].name =
                                  recs[i].unique_id

\* C7 as amended: a failure while processing one result record never prevents
\* the submissions of the other records.  A record whose test node is found and
\* whose processing raises no exception (it has timing, its completion time
\* parses, every dependency id is in the merged manifest and no submission
\* raises) is submitted once for each dependency node of the test, in order,
\* under the test-case name rebuilt for that node; a record that raises keeps
\* the submissions made for the dependency nodes before the failing one and
\* makes none for that node and the later ones.
C7_RecordsAreIndependent ==
    LET recs == dbt_run_results.results
        seen == IF pc = "results" THEN idx - 1
                ELSE IF pc = "done" /\ dbtConfigSource /\ dbt_manifest.present
                        /\ dbt_catalog.present /\ dbt_run_results.present
                THEN Len(recs) ELSE 0
        began(i) == /\ recs[i].timing.present
                    /\ recs[i].unique_id # Missing
                    /\ CompletedAt(recs[i].timing.entries, None) \in {None, "", Missing}
                       \/ ~StrptimeRaises(CompletedAt(recs[i].timing.entries, None))
                    /\ Has(dbt_tests, recs[i].unique_id)
        t(i) == Get(dbt_tests, recs[i].unique_id)
        name(m, test) ==
            ServiceName
            \o "." \o (IF m.database = Missing THEN None ELSE m.database)
            \o "." \o (IF m.schema = Missing THEN None ELSE m.schema)
            \o "." \o (IF m.name = Missing THEN None ELSE m.name)
            \o "." \o (IF test.column_name = Missing THEN None ELSE test.column_name)
            \o "." \o test.name
        good(i, j) ==
            /\ Has(manifest_entities, t(i).depends_on.nodes[j])
            /\ t(i).name # Missing
            /\ <<"TestCase", name(Get(manifest_entities, t(i).depends_on.nodes[j]), t(i))>>
                  \notin store.raising
        n(i) == IF ~began(i) \/ ~t(i).depends_on.present THEN 0
                ELSE CHOOSE k \in 0..Len(t(i).depends_on.nodes) :
                        /\ \A j \in 1..k : good(i, j)
                        /\ k = Len(t(i).depends_on.nodes) \/ ~good(i, k + 1)
        total[i \in 0..seen] == IF i = 0 THEN 0 ELSE total[i - 1] + n(i)
        status(x) == CASE x = "success" -> <<"Success", "1">>
                       [] x = "failure" -> <<"Failed", "0">>
                       [] OTHER -> <<"Aborted", "-1">>
    IN /\ Len(results) = total[seen]
       /\ \A i \in 1..seen :
             \A j \in 1..n(i) :
                LET r == results[total[i - 1] + j]
                IN /\ r.test_case_name =
                         name(Get(manifest_entities, t(i).depends_on.nodes[j]), t(i))
                   /\ r.test_results.testCaseStatus = status(recs[i].status)[1]
                   /\ r.test_results.testResultValue[1].name = recs[i].unique_id
                   /\ r.test_results.testResultValue[1].value = status(recs[i].status)[2]

\* C7 witness: an earlier record raised after its first submission (its second
\* dependency is not in the manifest) and a later record of another test was
\* submitted all the same.
C7_Witness ==
    /\ pc = "done"
    /\ \E i, j \in DOMAIN dbt_run_results.results :
          /\ i < j
          /\ Warn("result", ToString(i)) \in log
          /\ Warn("result", ToString(j)) \notin log
          /\ dbt_run_results.results[i].unique_id = TestKey1
          /\ dbt_run_results.results[j].unique_id = TestKey2
          /\ Len(results) = 2
          /\ results[1].test_results.testResultValue[1].name = TestKey1
          /\ results[2].test_results.testResultValue[1].name = TestKey2

\* C8: every result submitted by update_dbt_test_result targets a test case
\* that create_dbt_test_cases emitted in the same run: the test-case name is
\* built from the same service, database, schema, table, column and test name
\* as the entity link and name of a create-case request emitted for that test
\* and that dependency node.  Stated for the runs in which the catalog held the
\* suite and the definition of every test node from the start (no request for
\* them was emitted), so that no late catalog write is involved.
C8_ResultTargetsEmittedCase ==
    (/\ pc = "done"
     /\ suites = <<>>
     /\ definitions = <<>>
     /\ \A ti \in DOMAIN dbt_tests :
           /\ dbt_tests[ti].v.name \in store.defs
           /\ (IF dbt_tests[ti].v.meta.test_suite_name = Missing THEN "DBT_TEST_SUITE"
               ELSE dbt_tests[ti].v.meta.test_suite_name) \in store.suites)
    => \A k \in DOMAIN results :
          \E c \in DOMAIN cases, ti \in DOMAIN dbt_tests, mi \in DOMAIN manifest_entities :
             LET t == dbt_tests[ti].v
                 m == manifest_entities[mi].v
                 table == ServiceName
                          \o "." \o (IF m.database = Missing THEN None ELSE m.database)
                          \o "." \o (IF m.schema = Missing THEN None ELSE m.schema)
                          \o "." \o (IF m.name = Missing THEN None ELSE m.name)
                 column == IF t.column_name = Missing THEN None ELSE t.column_name
             IN /\ results[k].test_results.testResultValue[1].name = dbt_tests[ti].k
                /\ manifest_entities[mi].k \in
                      {t.depends_on.nodes[d] : d \in DOMAIN t.depends_on.nodes}
                /\ results[k].test_case_name = table \o "." \o column \o "." \o t.name
                /\ cases[c].name = t.name
                /\ cases[c].entityLink =
                      "<#E::table::" \o table
                      \o (IF column \in {None, ""} THEN "" ELSE "::columns::" \o column)
                      \o ">"

\* C11: upstream names and DataModel keys agree: whenever a non-test node N
\* lists in depends_on.nodes a non-test node P, both are stored in the DataModel
\* map (each under a key no other node shares) and _parse_data_model_upstream
\* put an entry for P in N's upstream list, that entry names the same service,
\* database, schema and table as the key under which P's DataModel is stored,
\* including when P has an alias different from its name.
C11_UpstreamNamesTheParentKey ==
    pc # "parse" =>
       \A ni, pi \in DOMAIN manifest_entities :
          LET N == manifest_entities[ni].v
              P == manifest_entities[pi].v
              nonTest(x) == x.resource_type # Missing /\ x.resource_type # "test"
              alone(x) ==
                  \A oi \in DOMAIN manifest_entities :
                     LET O == manifest_entities[oi].v
                     IN (nonTest(O) /\ HasNodeName(O) /\ ModelFqn(O) = ModelFqn(x))
                        => O = x
              listed == /\ N.depends_on.present
                        /\ \E j \in DOMAIN N.depends_on.nodes :
                              N.depends_on.nodes[j] = manifest_entities[pi].k
          IN (/\ nonTest(N) /\ nonTest(P)
              /\ HasNodeName(N) /\ HasNodeName(P)
              /\ listed
              /\ ~UpstreamRaises(manifest_entities, manifest_entities[pi].k)
              /\ Has(data_models, ModelFqn(N))
              /\ Has(data_models, ModelFqn(P))
              /\ alone(N) /\ alone(P))
             => \E u \in DOMAIN Get(data_models, ModelFqn(N)).upstream :
                   Get(data_models, ModelFqn(N)).upstream[u] = ModelFqn(P)

====
